---- MODULE Spec2Model ----
(***************************************************************************)
(* Model of p2p/src/handshake.rs (grin): the Handshake object with its     *)
(* ring buffer of recently issued nonces, the outbound connect() pipeline, *)
(* the inbound handshake() pipeline and the extract_ip address heuristic.  *)
(***************************************************************************)
EXTENDS Integers, Sequences, FiniteSets, TLC

(***************************************************************************)
(* Program constants                                                       *)
(***************************************************************************)
\* const NONCES_CAP: usize = 100;
NONCES_CAP == 100

(***************************************************************************)
(* Bounds of the model                                                     *)
(***************************************************************************)
\* next_nonce calls per Handshake object in the registry specification
MaxCalls == 102
\* the random source may repeat a value only among its first DupWindow draws
DupWindow == 3
\* threads that use one Handshake object concurrently
NumThreads == 2
\* next_nonce calls per Handshake object in the protocol specification
MaxConnects == 3

Node == {"A", "B"}
Threads == 1..NumThreads

VARIABLES
  nonces,     \* nonces[n]: the VecDeque<u64> of Handshake n, front first
  wlock,      \* wlock[n]: the thread holding the RwLock of n for writing, or 0
  rlock,      \* rlock[n]: the threads holding the RwLock of n for reading
  calls,      \* calls[n]: next_nonce calls started on n (draws of the random source)
  returned,   \* returned[n]: the values next_nonce returned on n, in order of return
  tpc,        \* tpc[t]: where thread t is inside next_nonce / the membership check
  tnode,      \* tnode[t]: the Handshake object thread t is working on
  tnonce,     \* tnonce[t]: the local `nonce` (next_nonce) or `hand.nonce` (check) of t, 0 outside a call
  tfound,     \* tfound[t]: the answer of the last nonces.contains() of t
  conn,       \* conn[s]: the connect() run on the initiating end of stream s: where
              \* it is, its locals, the Shake it read and its result
  hs,         \* hs[s]: the handshake() run on the accepting end of stream s: where
              \* it is, its arguments and locals, the Hand it read, what the
              \* registry answered at its check (checked, held) and whether the
              \* nonce was ever returned by next_nonce there (registered), the
              \* Shakes it wrote (sent) and its result
  c2r,        \* c2r[s]: messages written by the initiating end, not yet read
  r2c,        \* r2c[s]: messages written by the accepting end, not yet read
  xip         \* a call of extract_ip on its own: the arguments, and the value
              \* returned once the call has run

regvars == <<nonces, wlock, rlock, calls, returned>>
thrvars == <<tpc, tnode, tnonce, tfound>>
strvars == <<conn, hs, c2r, r2c>>

vars == <<nonces, wlock, rlock, calls, returned, tpc, tnode, tnonce, tfound,
          conn, hs, c2r, r2c, xip>>

(***************************************************************************)
(* VecDeque<u64> operations used by the code                               *)
(***************************************************************************)
Range(q) == {q[i] : i \in 1..Len(q)}

\* nonces.push_back(nonce)
push_back(q, v) == Append(q, v)

\* nonces.pop_front(): removes the front element, if there is one
pop_front(q) == IF Len(q) = 0 THEN q ELSE Tail(q)

\* nonces.contains(&hand.nonce)
contains(q, v) == \E i \in 1..Len(q) : q[i] = v

\* the condition of line 181 with the comparison dropped: the buffer never shrinks
cap_reached_never(q) == FALSE

\* if nonces.len() >= NONCES_CAP
cap_reached(q) == Len(q) >= NONCES_CAP

\* line 181-183 with the wrong end popped
evict_back(q) == IF cap_reached(q) THEN SubSeq(q, 1, Len(q) - 1) ELSE q

\* if nonces.len() >= NONCES_CAP { nonces.pop_front(); }
evict(q) == IF cap_reached(q) THEN pop_front(q) ELSE q

\* the whole critical section of next_nonce, as one function of the buffer
next_nonce_buf(q, v) == evict(push_back(q, v))

(***************************************************************************)
(* The random source: rng.next_u64().  Nonces are only ever compared for   *)
(* equality, and the value drawn at line 177 is first used by the push of  *)
(* line 180, so the model picks it there: either a value the object has    *)
(* not registered before, named by the number of the push, or (among the   *)
(* first DupWindow pushes) a repetition of the first value registered.     *)
(***************************************************************************)
\* push_back calls done so far on n
Pushes(n) == Len(returned[n]) + (IF wlock[n] # 0 THEN 1 ELSE 0)

FreshNonce(n) == Pushes(n) + 1

RngValues(n) ==
  {FreshNonce(n)} \cup (IF Pushes(n) > 0 /\ Pushes(n) < DupWindow THEN {1} ELSE {})

(***************************************************************************)
(* Handshake::new                                                          *)
(***************************************************************************)
InitRegistry ==
  /\ nonces = [n \in Node |-> << >>]
  /\ wlock = [n \in Node |-> 0]
  /\ rlock = [n \in Node |-> {}]
  /\ calls = [n \in Node |-> 0]
  /\ returned = [n \in Node |-> << >>]

InitThreads ==
  /\ tpc = [t \in Threads |-> "idle"]
  /\ tnode = [t \in Threads |-> "A"]
  /\ tnonce = [t \in Threads |-> 0]
  /\ tfound = [t \in Threads |-> FALSE]

(***************************************************************************)
(* next_nonce, step by step                                                *)
(***************************************************************************)
\* lines 176-177: the call starts and draws its nonce; the write lock is not
\* yet held
NextNonceDraw(t, n) ==
  /\ tpc[t] = "idle"
  /\ calls[n] < MaxCalls
  /\ tpc' = [tpc EXCEPT ![t] = "drawn"]
  /\ tnode' = [tnode EXCEPT ![t] = n]
  /\ calls' = [calls EXCEPT ![n] = @ + 1]
  /\ UNCHANGED <<xip, nonces, wlock, rlock, returned, tnonce, tfound, strvars>>

\* lines 179-180: self.nonces.write() is granted, then push_back(nonce)
NextNoncePush(t, v) ==
  /\ tpc[t] = "drawn"
  /\ v \in RngValues(tnode[t])
  /\ wlock[tnode[t]] = 0
  /\ rlock[tnode[t]] = {}
  /\ wlock' = [wlock EXCEPT ![tnode[t]] = t]
  /\ nonces' = [nonces EXCEPT ![tnode[t]] = push_back(@, v)]
  /\ tnonce' = [tnonce EXCEPT ![t] = v]
  /\ tpc' = [tpc EXCEPT ![t] = "pushed"]
  /\ UNCHANGED <<xip, rlock, calls, returned, tnode, tfound, strvars>>

\* lines 181-185: evict when the cap is reached, return the nonce; the write
\* guard is dropped on return
NextNonceEvict(t) ==
  /\ tpc[t] = "pushed"
  /\ wlock[tnode[t]] = t
  /\ nonces' = [nonces EXCEPT ![tnode[t]] = evict(@)]
  /\ wlock' = [wlock EXCEPT ![tnode[t]] = 0]
  /\ returned' = [returned EXCEPT ![tnode[t]] = Append(@, tnonce[t])]
  /\ tpc' = [tpc EXCEPT ![t] = "idle"]
  /\ tnonce' = [tnonce EXCEPT ![t] = 0]
  /\ UNCHANGED <<xip, rlock, calls, tnode, tfound, strvars>>

(***************************************************************************)
(* The membership check of handshake(), step by step                       *)
(***************************************************************************)
\* line 139 with the read lock granted while a writer holds the lock
CheckLock_nowait(t, n, v) ==
  /\ tpc[t] = "idle"
  /\ rlock' = [rlock EXCEPT ![n] = @ \cup {t}]
  /\ tpc' = [tpc EXCEPT ![t] = "reading"]
  /\ tnode' = [tnode EXCEPT ![t] = n]
  /\ tnonce' = [tnonce EXCEPT ![t] = v]
  /\ UNCHANGED <<xip, nonces, wlock, calls, returned, tfound, strvars>>

\* line 139: nonces.read() is granted
CheckLock(t, n, v) ==
  /\ tpc[t] = "idle"
  /\ wlock[n] = 0
  /\ rlock' = [rlock EXCEPT ![n] = @ \cup {t}]
  /\ tpc' = [tpc EXCEPT ![t] = "reading"]
  /\ tnode' = [tnode EXCEPT ![t] = n]
  /\ tnonce' = [tnonce EXCEPT ![t] = v]
  /\ UNCHANGED <<xip, nonces, wlock, calls, returned, tfound, strvars>>

\* lines 140-146: nonces.contains(&hand.nonce); the read guard is dropped at
\* the end of the block (or by the early return)
CheckContains(t) ==
  /\ tpc[t] = "reading"
  /\ t \in rlock[tnode[t]]
  /\ tfound' = [tfound EXCEPT ![t] = contains(nonces[tnode[t]], tnonce[t])]
  /\ rlock' = [rlock EXCEPT ![tnode[t]] = @ \ {t}]
  /\ tpc' = [tpc EXCEPT ![t] = "idle"]
  /\ tnonce' = [tnonce EXCEPT ![t] = 0]
  /\ UNCHANGED <<xip, nonces, wlock, calls, returned, tnode, strvars>>

(***************************************************************************)
(* Values of the wire messages and of the results                          *)
(***************************************************************************)
\* msg.rs: pub const PROTOCOL_VERSION: u32
PROTOCOL_VERSION == 1

\* msg.rs: pub const USER_AGENT: &'static str
USER_AGENT == "MW/Grin"

\* `x as u8` of a u32: the low byte
as_u8(x) == x % 256

\* an Option / a Vec of at most one element is a sequence of length 0 or 1
None == << >>
Some(x) == <<x>>

\* std::net::IpAddr: the family and its octets (V4) or segments (V6)
V4(a, b, c, d) == [fam |-> 4, seg |-> <<a, b, c, d>>]
V6(h) == [fam |-> 6, seg |-> <<0, 0, 0, 0, 0, 0, 0, h>>]

\* Ipv4Addr::is_loopback (127.0.0.0/8), Ipv6Addr::is_loopback (::1)
is_loopback(ip) ==
  IF ip.fam = 4 THEN ip.seg[1] = 127 ELSE ip.seg = <<0, 0, 0, 0, 0, 0, 0, 1>>

\* Ipv4Addr::is_unspecified (0.0.0.0), Ipv6Addr::is_unspecified (::)
is_unspecified(ip) ==
  IF ip.fam = 4 THEN ip.seg = <<0, 0, 0, 0>> ELSE ip.seg = <<0, 0, 0, 0, 0, 0, 0, 0>>

\* SocketAddr::new(ip, port)
SocketAddr_new(ip, port) == [ip |-> ip, port |-> port]

\* extract_ip with the observed port kept instead of the advertised one
extract_ip_observed_port(advertised, pa) ==
  IF (is_loopback(advertised.ip) \/ is_unspecified(advertised.ip)) /\ pa # None
  THEN pa[1]
  ELSE advertised

\* extract_ip giving the unspecified address when conn.peer_addr() is Err
extract_ip_unspecified_on_err(advertised, pa) ==
  IF pa = None
  THEN SocketAddr_new(V4(0, 0, 0, 0), advertised.port)
  ELSE IF is_loopback(advertised.ip) \/ is_unspecified(advertised.ip)
       THEN SocketAddr_new(pa[1].ip, advertised.port)
       ELSE advertised

\* fn extract_ip(advertised, conn); pa is what conn.peer_addr() gives: Some(addr)
\* for Ok(addr), None for Err(_)
extract_ip(advertised, pa) ==
  IF advertised.ip.fam = 4
  THEN IF (is_loopback(advertised.ip) \/ is_unspecified(advertised.ip)) /\ pa # None
       THEN SocketAddr_new(pa[1].ip, advertised.port)
       ELSE advertised
  ELSE IF (is_loopback(advertised.ip) \/ is_unspecified(advertised.ip)) /\ pa # None
       THEN SocketAddr_new(pa[1].ip, advertised.port)
       ELSE advertised

\* Error::Serialization(ser::Error::UnexpectedData { expected, received })
UnexpectedData(expected, received) ==
  [kind |-> "UnexpectedData", expected |-> expected, received |-> received]

\* Error::Connection(e), and the failure of write_msg / read_msg on the stream
ConnectionError == [kind |-> "Connection", expected |-> None, received |-> None]

\* Ok((conn, ProtocolV1::new(), peer_info))
OkResult(peer_info) ==
  [ok |-> TRUE, peer_info |-> Some(peer_info), proto |-> Some("ProtocolV1"), err |-> None]

\* Err(e)
ErrResult(e) == [ok |-> FALSE, peer_info |-> None, proto |-> None, err |-> Some(e)]

(***************************************************************************)
(* connect(): what it builds and decides                                   *)
(***************************************************************************)
\* lines 75-83 with the nonce field left at 0
MakeHand_zero_nonce(capab, total_difficulty, self_addr, peer_addr, nonce) ==
  [version |-> PROTOCOL_VERSION,
   capabilities |-> capab,
   nonce |-> 0,
   total_difficulty |-> total_difficulty,
   sender_addr |-> self_addr,
   receiver_addr |-> peer_addr,
   user_agent |-> USER_AGENT]

\* lines 75-83
MakeHand(capab, total_difficulty, self_addr, peer_addr, nonce) ==
  [version |-> PROTOCOL_VERSION,
   capabilities |-> capab,
   nonce |-> nonce,
   total_difficulty |-> total_difficulty,
   sender_addr |-> self_addr,
   receiver_addr |-> peer_addr,
   user_agent |-> USER_AGENT]

\* line 90 / line 131 with the test dropped
version_rejected_never(version) == FALSE

\* lines 90, 131 with the version compared after the cast to u8
version_rejected_low_byte(version) == as_u8(version) # 1

\* lines 90-94, 131-135: the version test and the error it builds
version_rejected(version) == version # 1

VersionMismatch(version) ==
  UnexpectedData(<<as_u8(PROTOCOL_VERSION)>>, <<as_u8(version)>>)

\* lines 96-102 with the local user agent recorded instead of the peer's
connect_result_own_agent(shake, peer_addr) ==
  IF version_rejected(shake.version)
  THEN ErrResult(VersionMismatch(shake.version))
  ELSE OkResult([capabilities |-> shake.capabilities,
                 user_agent |-> USER_AGENT,
                 addr |-> peer_addr,
                 version |-> shake.version,
                 total_difficulty |-> shake.total_difficulty])

\* lines 89-115 with the version test left out
connect_result_unchecked(shake, peer_addr) ==
  OkResult([capabilities |-> shake.capabilities,
            user_agent |-> shake.user_agent,
            addr |-> peer_addr,
            version |-> shake.version,
            total_difficulty |-> shake.total_difficulty])

\* lines 89-115: the closure run on the Shake that was read
connect_result(shake, peer_addr) ==
  IF version_rejected(shake.version)
  THEN ErrResult(VersionMismatch(shake.version))
  ELSE OkResult([capabilities |-> shake.capabilities,
                 user_agent |-> shake.user_agent,
                 addr |-> peer_addr,
                 version |-> shake.version,
                 total_difficulty |-> shake.total_difficulty])

(***************************************************************************)
(* handshake(): what it decides and builds                                 *)
(***************************************************************************)
\* lines 138-146 with the membership test dropped
self_connection_never(q, hand) == FALSE

\* lines 138-146 with the membership test inverted
self_connection_inverted(q, hand) == ~contains(q, hand.nonce)

\* lines 138-146: the self-connection test
self_connection(q, hand) == contains(q, hand.nonce)

\* lines 131-135 with the test put off: no Hand is refused for its version
handshake_version_error_none(hand) == None

\* lines 131-135: the error the closure returns for the version, if any
handshake_version_error(hand) ==
  IF version_rejected(hand.version)
  THEN Some(VersionMismatch(hand.version))
  ELSE None

\* lines 141-144 with the error of a nonce hit built like that of line 132
handshake_nonce_error_as_mismatch(q, hand) ==
  IF self_connection(q, hand)
  THEN Some(VersionMismatch(hand.version))
  ELSE None

\* lines 140-145: the error the closure returns for the nonce, if any
handshake_nonce_error(q, hand) ==
  IF self_connection(q, hand)
  THEN Some(UnexpectedData(None, None))
  ELSE None

\* lines 149-155 with the advertised address taken as it is
handshake_peer_info_advertised(hand, pa) ==
  [capabilities |-> hand.capabilities,
   user_agent |-> hand.user_agent,
   addr |-> hand.sender_addr,
   version |-> hand.version,
   total_difficulty |-> hand.total_difficulty]

\* lines 149-155
handshake_peer_info(hand, pa) ==
  [capabilities |-> hand.capabilities,
   user_agent |-> hand.user_agent,
   addr |-> extract_ip(hand.sender_addr, pa),
   version |-> hand.version,
   total_difficulty |-> hand.total_difficulty]

\* lines 157-162
MakeShake(capab, total_difficulty) ==
  [version |-> PROTOCOL_VERSION,
   capabilities |-> capab,
   total_difficulty |-> total_difficulty,
   user_agent |-> USER_AGENT]

(***************************************************************************)
(* Streams.  A stream has an initiating end and an accepting end; on each  *)
(* end runs either this code (connect() / handshake() of a local Handshake *)
(* object) or a remote peer that sends what it likes.                      *)
(***************************************************************************)
Stream == {1, 2}

NoConn ==
  [pc |-> "none", node |-> "A", capab |-> 0, total_difficulty |-> 0, self_addr |-> None,
   nonce |-> 0, peer_addr |-> None, hand |-> None, shake |-> None, res |-> None]

NoHs ==
  [pc |-> "none", node |-> "A", capab |-> 0, total_difficulty |-> 0,
   hand |-> None, checked |-> FALSE, held |-> FALSE, registered |-> FALSE,
   pa |-> None, peer_info |-> None, shake |-> None, sent |-> << >>, res |-> None]

InitStreams ==
  /\ conn = [s \in Stream |-> NoConn]
  /\ hs = [s \in Stream |-> NoHs]
  /\ c2r = [s \in Stream |-> << >>]
  /\ r2c = [s \in Stream |-> << >>]

(***************************************************************************)
(* connect(), lines 53-117                                                 *)
(***************************************************************************)
\* the name under which the run on stream s holds a lock of the registry
Pipeline(s) == 0 - s

\* lines 53-62, 176-177: connect() is called and enters next_nonce(), which
\* draws; the write lock is not yet held
ConnectCall(s, n, capab, total_difficulty, self_addr) ==
  /\ conn[s].pc = "none"
  /\ calls' = [calls EXCEPT ![n] = @ + 1]
  /\ conn' = [conn EXCEPT ![s] =
       [NoConn EXCEPT !.pc = "drawn", !.node = n, !.capab = capab,
                      !.total_difficulty = total_difficulty,
                      !.self_addr = Some(self_addr)]]
  /\ UNCHANGED <<xip, nonces, wlock, rlock, returned, thrvars, hs, c2r, r2c>>

\* lines 179-180 inside connect(): self.nonces.write() is granted, then
\* push_back(nonce)
ConnectNoncePush(s, v) ==
  /\ conn[s].pc = "drawn"
  /\ v \in RngValues(conn[s].node)
  /\ wlock[conn[s].node] = 0
  /\ rlock[conn[s].node] = {}
  /\ wlock' = [wlock EXCEPT ![conn[s].node] = Pipeline(s)]
  /\ nonces' = [nonces EXCEPT ![conn[s].node] = push_back(@, v)]
  /\ conn' = [conn EXCEPT ![s].pc = "pushed", ![s].nonce = v]
  /\ UNCHANGED <<xip, rlock, calls, returned, thrvars, hs, c2r, r2c>>

\* lines 181-185 inside connect(): evict when the cap is reached; next_nonce
\* returns the nonce to line 62 and the write guard is dropped
ConnectNonceEvict(s) ==
  /\ conn[s].pc = "pushed"
  /\ wlock[conn[s].node] = Pipeline(s)
  /\ nonces' = [nonces EXCEPT ![conn[s].node] = evict(@)]
  /\ wlock' = [wlock EXCEPT ![conn[s].node] = 0]
  /\ returned' = [returned EXCEPT ![conn[s].node] = Append(@, conn[s].nonce)]
  /\ conn' = [conn EXCEPT ![s].pc = "addr"]
  /\ UNCHANGED <<xip, rlock, calls, thrvars, hs, c2r, r2c>>

\* lines 63-85: conn.peer_addr() gives pa: on Err the call returns the failed
\* future, otherwise the Hand is built and the future returned
ConnectPeerAddr(s, pa) ==
  /\ conn[s].pc = "addr"
  /\ conn' = [conn EXCEPT ![s] =
       IF pa = None
       THEN [@ EXCEPT !.pc = "done", !.res = Some(ErrResult(ConnectionError))]
       ELSE [@ EXCEPT !.pc = "write", !.peer_addr = pa,
                      !.hand = Some(MakeHand(conn[s].capab, conn[s].total_difficulty,
                                             conn[s].self_addr[1], pa[1], conn[s].nonce))]]
  /\ UNCHANGED <<xip, regvars, thrvars, hs, c2r, r2c>>

\* line 87: write_msg(conn, hand, Type::Hand) completes
ConnectWrite(s) ==
  /\ conn[s].pc = "write"
  /\ c2r' = [c2r EXCEPT ![s] = Append(@, conn[s].hand[1])]
  /\ conn' = [conn EXCEPT ![s].pc = "read"]
  /\ UNCHANGED <<xip, regvars, thrvars, hs, r2c>>

\* line 87 failing, with the nonce of the run taken back out of the buffer
ConnectWriteFail_rollback(s) ==
  /\ conn[s].pc = "write"
  /\ conn' = [conn EXCEPT ![s].pc = "done", ![s].res = Some(ErrResult(ConnectionError))]
  /\ nonces' = [nonces EXCEPT ![conn[s].node] =
                  SelectSeq(@, LAMBDA x : x # conn[s].nonce)]
  /\ UNCHANGED <<xip, wlock, rlock, calls, returned, thrvars, hs, c2r, r2c>>

\* line 87: write_msg fails; the later closures are skipped
ConnectWriteFail(s) ==
  /\ conn[s].pc = "write"
  /\ conn' = [conn EXCEPT ![s].pc = "done", ![s].res = Some(ErrResult(ConnectionError))]
  /\ UNCHANGED <<xip, regvars, thrvars, hs, c2r, r2c>>

\* lines 88-115: read_msg::<Shake> delivers a Shake and the closure runs on it
ConnectRead(s) ==
  /\ conn[s].pc = "read"
  /\ r2c[s] # << >>
  /\ r2c' = [r2c EXCEPT ![s] = Tail(@)]
  /\ conn' = [conn EXCEPT ![s].pc = "done",
                          ![s].shake = Some(Head(r2c[s])),
                          ![s].res = Some(connect_result(Head(r2c[s]), conn[s].peer_addr[1]))]
  /\ UNCHANGED <<xip, regvars, thrvars, hs, c2r>>

\* line 88: read_msg::<Shake> fails (the stream errors or is closed)
ConnectReadFail(s) ==
  /\ conn[s].pc = "read"
  /\ conn' = [conn EXCEPT ![s].pc = "done", ![s].res = Some(ErrResult(ConnectionError))]
  /\ UNCHANGED <<xip, regvars, thrvars, hs, c2r, r2c>>

(***************************************************************************)
(* handshake(), lines 121-172                                              *)
(***************************************************************************)
\* lines 121-128: the call clones the Arc and returns the future
HandshakeCall(s, n, capab, total_difficulty) ==
  /\ hs[s].pc = "none"
  /\ hs' = [hs EXCEPT ![s] = [NoHs EXCEPT !.pc = "read", !.node = n, !.capab = capab,
                                         !.total_difficulty = total_difficulty]]
  /\ UNCHANGED <<xip, regvars, thrvars, conn, c2r, r2c>>

\* line 146 with the read guard outliving the block
read_guard_kept(held, h) == held

\* line 146 (and the return of line 141): the read guard taken at line 139
\* goes out of scope, before the closure goes on or returns
read_guard_dropped(held, h) == held \ {h}

\* lines 129-136: read_msg::<Hand> delivers a Hand and the first closure
\* starts on it with the version test; a Hand that passes makes the closure
\* ask for the read lock
HandshakeRead(s) ==
  /\ hs[s].pc = "read"
  /\ c2r[s] # << >>
  /\ LET hand == Head(c2r[s])
         e == handshake_version_error(hand)
     IN hs' = [hs EXCEPT ![s] =
          [@ EXCEPT !.pc = IF e = None THEN "lock" ELSE "done",
                    !.hand = Some(hand),
                    !.res = IF e = None THEN None ELSE Some(ErrResult(e[1]))]]
  /\ c2r' = [c2r EXCEPT ![s] = Tail(@)]
  /\ UNCHANGED <<xip, regvars, thrvars, conn, r2c>>

\* line 139: nonces.read() is granted
HandshakeLock(s) ==
  /\ hs[s].pc = "lock"
  /\ wlock[hs[s].node] = 0
  /\ rlock' = [rlock EXCEPT ![hs[s].node] = @ \cup {Pipeline(s)}]
  /\ hs' = [hs EXCEPT ![s].pc = "checking"]
  /\ UNCHANGED <<xip, nonces, wlock, calls, returned, thrvars, conn, c2r, r2c>>

\* lines 140-146: nonces.contains(&hand.nonce) under the read guard, which is
\* dropped by the early return or at the end of the block
HandshakeContains(s) ==
  /\ hs[s].pc = "checking"
  /\ Pipeline(s) \in rlock[hs[s].node]
  /\ LET hand == hs[s].hand[1]
         n == hs[s].node
         e == handshake_nonce_error(nonces[n], hand)
     IN hs' = [hs EXCEPT ![s] =
          [@ EXCEPT !.pc = IF e = None THEN "addr" ELSE "done",
                    !.checked = TRUE,
                    !.held = contains(nonces[n], hand.nonce),
                    !.registered = hand.nonce \in Range(returned[n]),
                    !.res = IF e = None THEN None ELSE Some(ErrResult(e[1]))]]
  /\ rlock' = [rlock EXCEPT ![hs[s].node] = read_guard_dropped(@, Pipeline(s))]
  /\ UNCHANGED <<xip, nonces, wlock, calls, returned, thrvars, conn, c2r, r2c>>

\* lines 148-164: the PeerInfo, with extract_ip (pa is what conn.peer_addr()
\* gives), and the Shake are built; the closure returns them
HandshakePeerAddr(s, pa) ==
  /\ hs[s].pc = "addr"
  /\ hs' = [hs EXCEPT ![s] =
       [@ EXCEPT !.pc = "write",
                 !.pa = pa,
                 !.peer_info = Some(handshake_peer_info(hs[s].hand[1], pa)),
                 !.shake = Some(MakeShake(hs[s].capab, hs[s].total_difficulty))]]
  /\ UNCHANGED <<xip, regvars, thrvars, conn, c2r, r2c>>

\* line 129: read_msg::<Hand> fails
HandshakeReadFail(s) ==
  /\ hs[s].pc = "read"
  /\ hs' = [hs EXCEPT ![s].pc = "done", ![s].res = Some(ErrResult(ConnectionError))]
  /\ UNCHANGED <<xip, regvars, thrvars, conn, c2r, r2c>>

\* lines 165-170: write_msg(conn, shake, Type::Shake) completes and the result
\* is mapped to (conn, ProtocolV1::new(), peer_info)
HandshakeWrite(s) ==
  /\ hs[s].pc = "write"
  /\ r2c' = [r2c EXCEPT ![s] = Append(@, hs[s].shake[1])]
  /\ hs' = [hs EXCEPT ![s].pc = "done", ![s].sent = Append(@, hs[s].shake[1]),
                      ![s].res = Some(OkResult(hs[s].peer_info[1]))]
  /\ UNCHANGED <<xip, regvars, thrvars, conn, c2r>>

\* line 167: write_msg fails
HandshakeWriteFail(s) ==
  /\ hs[s].pc = "write"
  /\ hs' = [hs EXCEPT ![s].pc = "done", ![s].res = Some(ErrResult(ConnectionError))]
  /\ UNCHANGED <<xip, regvars, thrvars, conn, c2r, r2c>>

(***************************************************************************)
(* The other side of a stream when it is not this code, and the caller     *)
(***************************************************************************)
\* a remote initiator sends a Hand of its own making
RemoteHand(s, hand) ==
  /\ conn[s].pc = "none"
  /\ conn' = [conn EXCEPT ![s].pc = "remote"]
  /\ c2r' = [c2r EXCEPT ![s] = Append(@, hand)]
  /\ UNCHANGED <<xip, regvars, thrvars, hs, r2c>>

\* a remote responder reads the Hand and replies with a Shake of its own making
RemoteShake(s, shake) ==
  /\ hs[s].pc = "none"
  /\ conn[s].pc = "read"
  /\ c2r[s] # << >>
  /\ hs' = [hs EXCEPT ![s].pc = "remote"]
  /\ c2r' = [c2r EXCEPT ![s] = Tail(@)]
  /\ r2c' = [r2c EXCEPT ![s] = Append(@, shake)]
  /\ UNCHANGED <<xip, regvars, thrvars, conn>>

\* the caller drops the connection with whatever futures are still pending on
\* it (a future is dropped between two polls, never inside the call of
\* connect() or inside a closure); the slot then stands for a new connection
Close(s) ==
  /\ conn[s].pc # "none" \/ hs[s].pc # "none"
  /\ conn[s].pc \notin {"drawn", "pushed", "addr"}
  /\ hs[s].pc \notin {"lock", "checking", "addr"}
  /\ conn' = [conn EXCEPT ![s] = NoConn]
  /\ hs' = [hs EXCEPT ![s] = NoHs]
  /\ c2r' = [c2r EXCEPT ![s] = << >>]
  /\ r2c' = [r2c EXCEPT ![s] = << >>]
  /\ UNCHANGED <<xip, regvars, thrvars>>

\* no call of extract_ip on its own
NoIp == [advertised |-> None, pa |-> None, result |-> None]

\* extract_ip(advertised, conn) runs on the arguments held in xip
ExtractIp ==
  /\ xip.advertised # None
  /\ xip.result = None
  /\ xip' = [xip EXCEPT !.result = Some(extract_ip(xip.advertised[1], xip.pa))]
  /\ UNCHANGED <<regvars, thrvars, strvars>>

(***************************************************************************)
(* Registry specification: threads sharing the Handshake object "A"        *)
(***************************************************************************)
InitReg == InitRegistry /\ InitThreads /\ InitStreams /\ xip = NoIp

NextReg ==
  \/ \E t \in Threads : NextNonceDraw(t, "A")
  \/ \E t \in Threads : \E v \in RngValues("A") : NextNoncePush(t, v)
  \/ \E t \in Threads : NextNonceEvict(t)
  \/ \E t \in Threads : CheckLock(t, "A", 1)
  \/ \E t \in Threads : CheckContains(t)

SpecReg == InitReg /\ [][NextReg]_vars

\* One caller at a time: the calls of one thread, each running to its return
NextSeq ==
  \/ NextNonceDraw(1, "A")
  \/ \E v \in RngValues("A") : NextNoncePush(1, v)
  \/ NextNonceEvict(1)
  \/ CheckLock(1, "A", 1)
  \/ CheckContains(1)

SpecSeq == InitReg /\ [][NextSeq]_vars

(***************************************************************************)
(* Protocol specification: connections of the Handshake object "A", one    *)
(* after the other on stream 1, each end run by this code or by a remote   *)
(* peer, while thread 1 runs the next_nonce calls of connect() on other    *)
(* connections.                                                            *)
(***************************************************************************)
Loopback4 == SocketAddr_new(V4(127, 0, 0, 1), 7000)
Unspecified4 == SocketAddr_new(V4(0, 0, 0, 0), 7000)
Public4 == SocketAddr_new(V4(198, 51, 100, 9), 7000)
Loopback6 == SocketAddr_new(V6(1), 7000)
Unspecified6 == SocketAddr_new(V6(0), 7000)
Public6 == SocketAddr_new(V6(9), 7000)
Observed4 == SocketAddr_new(V4(203, 0, 113, 5), 51000)

\* (capabilities, total_difficulty) the caller passes in
LocalParams == {[capab |-> 1, total_difficulty |-> 10],
                [capab |-> 3, total_difficulty |-> 30]}

SelfAddrs == {Loopback4, Public4}

\* what conn.peer_addr() gives
PeerAddrResults == {None, Some(Observed4)}

\* u32 versions a peer may send: the supported one, another one, and two
\* whose low byte is that of 0 and of 1
Versions == {1, 2, 256, 257}

RemoteHands ==
  {[version |-> ver, capabilities |-> 2, nonce |-> nn, total_difficulty |-> 20,
    sender_addr |-> sa, receiver_addr |-> Public4, user_agent |-> "other"] :
     ver \in Versions, nn \in {0, 1}, sa \in {Loopback4, Unspecified4, Loopback6, Public4}}

RemoteShakes ==
  {[version |-> ver, capabilities |-> 2, total_difficulty |-> 20, user_agent |-> "other"] :
     ver \in Versions}

Init == InitRegistry /\ InitThreads /\ InitStreams /\ xip = NoIp

Next ==
  \/ \E p \in LocalParams, sa \in SelfAddrs :
       /\ calls["A"] < MaxConnects
       /\ ConnectCall(1, "A", p.capab, p.total_difficulty, sa)
  \/ \E v \in RngValues("A") : ConnectNoncePush(1, v)
  \/ ConnectNonceEvict(1)
  \/ \E pa \in PeerAddrResults : ConnectPeerAddr(1, pa)
  \/ ConnectWrite(1)
  \/ ConnectWriteFail(1)
  \/ ConnectRead(1)
  \/ ConnectReadFail(1)
  \/ \E p \in LocalParams : HandshakeCall(1, "A", p.capab, p.total_difficulty)
  \/ HandshakeRead(1)
  \/ HandshakeLock(1)
  \/ HandshakeContains(1)
  \/ \E pa \in PeerAddrResults : HandshakePeerAddr(1, pa)
  \/ HandshakeReadFail(1)
  \/ HandshakeWrite(1)
  \/ HandshakeWriteFail(1)
  \/ \E hand \in RemoteHands : RemoteHand(1, hand)
  \/ \E shake \in RemoteShakes : RemoteShake(1, shake)
  \/ Close(1)
  \/ calls["A"] < MaxConnects /\ NextNonceDraw(1, "A")
  \/ \E v \in RngValues("A") : NextNoncePush(1, v)
  \/ NextNonceEvict(1)

Spec == Init /\ [][Next]_vars

(***************************************************************************)
(* Address specification: one call of extract_ip on every pair of an       *)
(* advertised address and of what conn.peer_addr() gives.                  *)
(***************************************************************************)
\* ::ffff:127.0.0.1, the IPv4 loopback mapped into IPv6
Mapped6 == [fam |-> 6, seg |-> <<0, 0, 0, 0, 0, 65535, 32512, 1>>]

AdvertisedIps ==
  {V4(127, 0, 0, 1), V4(127, 1, 2, 3), V4(0, 0, 0, 0), V4(198, 51, 100, 9), V4(0, 0, 0, 1),
   V6(1), V6(0), V6(9), Mapped6}

AdvertisedPorts == {7000, 13414}

ObservedAddrs ==
  {Observed4, SocketAddr_new(V6(5), 51001), SocketAddr_new(V4(127, 0, 0, 1), 51002),
   SocketAddr_new(V4(0, 0, 0, 0), 7000)}

InitIp ==
  /\ InitRegistry /\ InitThreads /\ InitStreams
  /\ xip \in {[advertised |-> Some(SocketAddr_new(ip, port)), pa |-> pa, result |-> None] :
               ip \in AdvertisedIps, port \in AdvertisedPorts,
               pa \in {None} \cup {Some(o) : o \in ObservedAddrs}}

NextIp == ExtractIp

SpecIp == InitIp /\ [][NextIp]_vars

(***************************************************************************)
(* Self-dial specification: node "A" dials on stream 1 and the connection  *)
(* comes back to its own handshake() (or a remote peer sends a Hand),      *)
(* while thread 1 runs the next_nonce calls of up to MaxCalls further      *)
(* connect() calls on the same Handshake object.                           *)
(***************************************************************************)
DialHands ==
  {[version |-> PROTOCOL_VERSION, capabilities |-> 2, nonce |-> nn, total_difficulty |-> 20,
    sender_addr |-> Public4, receiver_addr |-> Public4, user_agent |-> "other"] :
     nn \in {0, 1}}

NextDial ==
  \/ calls["A"] < MaxCalls /\ ConnectCall(1, "A", 1, 10, Loopback4)
  \/ \E v \in RngValues("A") : ConnectNoncePush(1, v)
  \/ ConnectNonceEvict(1)
  \/ ConnectPeerAddr(1, Some(Observed4))
  \/ ConnectWrite(1)
  \/ ConnectRead(1)
  \/ HandshakeCall(1, "A", 1, 10)
  \/ HandshakeRead(1)
  \/ HandshakeLock(1)
  \/ HandshakeContains(1)
  \/ HandshakePeerAddr(1, Some(Observed4))
  \/ HandshakeWrite(1)
  \/ \E hand \in DialHands : RemoteHand(1, hand)
  \/ NextNonceDraw(1, "A")
  \/ \E v \in RngValues("A") : NextNoncePush(1, v)
  \/ NextNonceEvict(1)

SpecDial == Init /\ [][NextDial]_vars

(***************************************************************************)
(* Outcome specification: the self-dial specification with every outcome   *)
(* of a run: transport failures on both ends, a Shake of any version from  *)
(* a remote responder, and the caller dropping the connection.  The        *)
(* Handshake object "A" is either new, and then sees MaxConnects calls of  *)
(* next_nonce, or has returned from OutcomeStart calls that gave the       *)
(* values 1, 2, ..., and then goes on to MaxCalls calls, through the cap.  *)
(***************************************************************************)
\* calls made on "A" before the runs looked at, when it is not new
OutcomeStart == NONCES_CAP - MaxConnects

\* the registry of "A" after OutcomeStart calls of next_nonce, one after the
\* other, that returned 1, 2, ..., OutcomeStart
InitFilled ==
  /\ nonces = [n \in Node |-> IF n = "A" THEN [i \in 1..OutcomeStart |-> i] ELSE << >>]
  /\ returned = [n \in Node |-> IF n = "A" THEN [i \in 1..OutcomeStart |-> i] ELSE << >>]
  /\ calls = [n \in Node |-> IF n = "A" THEN OutcomeStart ELSE 0]
  /\ wlock = [n \in Node |-> 0]
  /\ rlock = [n \in Node |-> {}]
  /\ InitThreads /\ InitStreams /\ xip = NoIp

InitOutcome == Init \/ InitFilled

\* the cap on the calls of next_nonce on "A"
OutcomeCalls ==
  \/ calls["A"] < MaxConnects
  \/ calls["A"] >= OutcomeStart /\ calls["A"] < MaxCalls

NextOutcome ==
  \/ OutcomeCalls /\ ConnectCall(1, "A", 1, 10, Loopback4)
  \/ \E v \in RngValues("A") : ConnectNoncePush(1, v)
  \/ ConnectNonceEvict(1)
  \/ ConnectPeerAddr(1, Some(Observed4))
  \/ ConnectWrite(1)
  \/ ConnectWriteFail(1)
  \/ ConnectRead(1)
  \/ ConnectReadFail(1)
  \/ HandshakeCall(1, "A", 1, 10)
  \/ HandshakeRead(1)
  \/ HandshakeLock(1)
  \/ HandshakeContains(1)
  \/ HandshakePeerAddr(1, Some(Observed4))
  \/ HandshakeReadFail(1)
  \/ HandshakeWrite(1)
  \/ HandshakeWriteFail(1)
  \/ \E hand \in DialHands : RemoteHand(1, hand)
  \/ \E shake \in RemoteShakes : RemoteShake(1, shake)
  \/ Close(1)
  \/ OutcomeCalls /\ NextNonceDraw(1, "A")
  \/ \E v \in RngValues("A") : NextNoncePush(1, v)
  \/ NextNonceEvict(1)

SpecOutcome == InitOutcome /\ [][NextOutcome]_vars

(***************************************************************************)
(* End-to-end specification: connect() of node "A" and handshake() of node *)
(* "B" on the two ends of stream 1, no transport failure; thread 1 and     *)
(* thread 2 run the next_nonce calls of other connect() calls of "A" and   *)
(* of "B".  Futures that can make progress are polled, and a thread inside *)
(* the critical section of next_nonce leaves it.                           *)
(***************************************************************************)
NextE2E ==
  \/ \E p \in LocalParams, sa \in SelfAddrs :
       /\ calls["A"] < MaxConnects
       /\ ConnectCall(1, "A", p.capab, p.total_difficulty, sa)
  \/ \E v \in RngValues("A") : ConnectNoncePush(1, v)
  \/ ConnectNonceEvict(1)
  \/ ConnectPeerAddr(1, Some(Observed4))
  \/ ConnectWrite(1)
  \/ ConnectRead(1)
  \/ \E p \in LocalParams : HandshakeCall(1, "B", p.capab, p.total_difficulty)
  \/ HandshakeRead(1)
  \/ HandshakeLock(1)
  \/ HandshakeContains(1)
  \/ \E pa \in PeerAddrResults : HandshakePeerAddr(1, pa)
  \/ HandshakeWrite(1)
  \/ calls["A"] < MaxConnects /\ NextNonceDraw(1, "A")
  \/ calls["B"] < MaxConnects /\ NextNonceDraw(2, "B")
  \/ \E t \in {1, 2} : \E v \in RngValues(tnode[t]) : NextNoncePush(t, v)
  \/ \E t \in {1, 2} : NextNonceEvict(t)

FairE2E ==
  /\ WF_vars(ConnectWrite(1))
  /\ WF_vars(ConnectRead(1))
  /\ WF_vars(\E v \in RngValues("A") : ConnectNoncePush(1, v))
  /\ WF_vars(ConnectNonceEvict(1))
  /\ WF_vars(ConnectPeerAddr(1, Some(Observed4)))
  /\ WF_vars(HandshakeRead(1))
  /\ WF_vars(HandshakeLock(1))
  /\ WF_vars(HandshakeContains(1))
  /\ WF_vars(\E pa \in PeerAddrResults : HandshakePeerAddr(1, pa))
  /\ WF_vars(HandshakeWrite(1))
  /\ \A t \in {1, 2} : WF_vars(NextNonceEvict(t))

SpecE2E == Init /\ [][NextE2E]_vars /\ FairE2E

(***************************************************************************)
(* Properties of the nonce registry                                        *)
(***************************************************************************)
\* no insertion is between its push_back and its return
Quiescent(n) == wlock[n] = 0

Distinct(r) == Cardinality(Range(r)) = Len(r)

\* C2: after N > 100 calls of next_nonce that returned pairwise distinct
\* values the buffer holds exactly the 100 values returned last, in insertion
\* order; the 1st value is still held after the 100th call and is gone after
\* the 101st.
C2_HoldsLastHundred ==
  LET r == returned["A"]
      N == Len(r)
  IN (Quiescent("A") /\ N >= NONCES_CAP /\ Distinct(r)) =>
       /\ (N = NONCES_CAP) => contains(nonces["A"], r[1])
       /\ (N > NONCES_CAP) => nonces["A"] = SubSeq(r, N - NONCES_CAP + 1, N)
       /\ (N = NONCES_CAP + 1) => ~contains(nonces["A"], r[1])

\* C3: a value x returned by next_nonce and not returned again later is held
\* right after the call returns and after each of the next 99 insertions, and
\* is no longer held once 100 further insertions have occurred.
C3_HeldUntilHundredMore ==
  LET r == returned["A"]
      N == Len(r)
  IN Quiescent("A") =>
       \A i \in 1..N :
         (\A j \in (i + 1)..N : r[j] # r[i]) =>
           /\ (N - i <= NONCES_CAP - 1) => contains(nonces["A"], r[i])
           /\ (N - i >= NONCES_CAP) => ~contains(nonces["A"], r[i])

\* C4: the buffer never holds more than NONCES_CAP nonces, and every change
\* of it either appends one nonce at the back or removes the front (oldest)
\* one; the entries that stay keep their order.
C4_BoundedFifo ==
  [][\A n \in Node :
       /\ Len(nonces[n]) <= NONCES_CAP
       /\ Len(nonces'[n]) <= NONCES_CAP
       /\ (nonces'[n] # nonces[n]) =>
            \/ /\ Len(nonces'[n]) = Len(nonces[n]) + 1
               /\ SubSeq(nonces'[n], 1, Len(nonces[n])) = nonces[n]
            \/ /\ Len(nonces[n]) > 0
               /\ nonces'[n] = Tail(nonces[n])]_vars

\* an eviction has happened: more values were returned than the buffer can
\* hold, the buffer is as full as it gets and its front is no longer the
\* first value returned
C4_Witness ==
  /\ Quiescent("A")
  /\ Len(returned["A"]) > NONCES_CAP
  /\ Len(nonces["A"]) = NONCES_CAP - 1
  /\ nonces["A"][1] # returned["A"][1]
  /\ nonces["A"][1] = returned["A"][Len(returned["A"]) - Len(nonces["A"]) + 1]

(***************************************************************************)
(* Properties of connect() and handshake()                                 *)
(***************************************************************************)
\* the connect() run on s has read a Shake
ConnectReadShake(s) == conn[s].pc = "done" /\ conn[s].shake # None

\* the handshake() run on s has read a Hand
HandshakeReadHand(s) == hs[s].hand # None

\* C5: connect() that read a Shake, and handshake() that read a Hand, with a
\* version v other than the supported one have failed with the mismatch error
\* whose expected field is [supported] and whose received field is [v], and
\* have produced no PeerInfo.
C5_MismatchReportsVersion ==
  \A s \in Stream :
    /\ (ConnectReadShake(s) /\ conn[s].shake[1].version # PROTOCOL_VERSION) =>
         /\ conn[s].res = Some(ErrResult(UnexpectedData(<<PROTOCOL_VERSION>>,
                                                        <<conn[s].shake[1].version>>)))
         /\ conn[s].res[1].peer_info = None
    /\ (HandshakeReadHand(s) /\ hs[s].hand[1].version # PROTOCOL_VERSION) =>
         /\ hs[s].res = Some(ErrResult(UnexpectedData(<<PROTOCOL_VERSION>>,
                                                      <<hs[s].hand[1].version>>)))
         /\ hs[s].res[1].peer_info = None

\* C6: connect() that wrote its Hand and read a Shake with the supported
\* version has succeeded with a PeerInfo whose capabilities, user_agent,
\* total_difficulty and version are the Shake's and whose address is the one
\* conn.peer_addr() gave at the start of the call.
C6_ConnectPeerInfo ==
  \A s \in Stream :
    (ConnectReadShake(s) /\ conn[s].shake[1].version = PROTOCOL_VERSION) =>
      /\ conn[s].res # None
      /\ conn[s].res[1].ok
      /\ conn[s].res[1].err = None
      /\ conn[s].res[1].peer_info =
           Some([capabilities |-> conn[s].shake[1].capabilities,
                 user_agent |-> conn[s].shake[1].user_agent,
                 addr |-> conn[s].hand[1].receiver_addr,
                 version |-> conn[s].shake[1].version,
                 total_difficulty |-> conn[s].shake[1].total_difficulty])
      /\ conn[s].peer_addr = Some(conn[s].hand[1].receiver_addr)

\* a connect() run has succeeded against a peer whose values are not its own
C6_Witness ==
  \E s \in Stream :
    /\ ConnectReadShake(s)
    /\ conn[s].res[1].ok
    /\ conn[s].shake[1].user_agent # USER_AGENT
    /\ conn[s].shake[1].capabilities # conn[s].hand[1].capabilities
    /\ conn[s].peer_addr[1] # conn[s].hand[1].sender_addr

\* the handshake() run on s read a Hand that passes both tests, and its
\* write_msg of the Shake completed
HandshakeAccepted(s) ==
  /\ HandshakeReadHand(s)
  /\ hs[s].hand[1].version = PROTOCOL_VERSION
  /\ ~hs[s].held
  /\ hs[s].sent # << >>

\* C7: handshake() that read a Hand with the supported version and a nonce the
\* registry did not hold, and whose Shake write completed, returns a PeerInfo
\* with the Hand's capabilities, user_agent, version and total_difficulty and
\* the address extract_ip(hand.sender_addr, observed address); the Shake it
\* wrote carries the supported version, the local capabilities and
\* total_difficulty and the fixed user agent.
C7_HandshakePeerInfoAndShake ==
  \A s \in Stream :
    HandshakeAccepted(s) =>
      /\ hs[s].res # None
      /\ hs[s].res[1].ok
      /\ hs[s].res[1].peer_info =
           Some([capabilities |-> hs[s].hand[1].capabilities,
                 user_agent |-> hs[s].hand[1].user_agent,
                 addr |-> extract_ip(hs[s].hand[1].sender_addr, hs[s].pa),
                 version |-> hs[s].hand[1].version,
                 total_difficulty |-> hs[s].hand[1].total_difficulty])
      /\ hs[s].sent = <<[version |-> PROTOCOL_VERSION,
                         capabilities |-> hs[s].capab,
                         total_difficulty |-> hs[s].total_difficulty,
                         user_agent |-> USER_AGENT]>>

\* a handshake() run has succeeded for a peer that advertised a loopback
\* address and whose values differ from the local ones
C7_Witness ==
  \E s \in Stream :
    /\ HandshakeAccepted(s)
    /\ hs[s].res[1].ok
    /\ is_loopback(hs[s].hand[1].sender_addr.ip)
    /\ hs[s].res[1].peer_info[1].addr # hs[s].hand[1].sender_addr
    /\ hs[s].hand[1].user_agent # USER_AGENT
    /\ hs[s].hand[1].capabilities # hs[s].capab

\* the handshake() run on s read a Hand with the supported version whose
\* nonce the registry held when it was checked
HandshakeNonceHit(s) ==
  /\ HandshakeReadHand(s)
  /\ hs[s].hand[1].version = PROTOCOL_VERSION
  /\ hs[s].held

\* C9: handshake() that read a Hand with the supported version whose nonce the
\* registry held at the check has failed at once (nothing written) with an
\* UnexpectedData error whose expected and received are both empty; this
\* value differs from every version-mismatch error, whose expected and
\* received hold one element each.
C9_SelfConnectionError ==
  \A s \in Stream :
    HandshakeNonceHit(s) =>
      /\ hs[s].pc = "done"
      /\ hs[s].sent = << >>
      /\ hs[s].res = Some(ErrResult(UnexpectedData(<< >>, << >>)))
      /\ \A v \in 0..300 :
           /\ hs[s].res[1].err[1] # VersionMismatch(v)
           /\ Len(VersionMismatch(v).expected) = 1
           /\ Len(VersionMismatch(v).received) = 1

\* a handshake() run met its own node's nonce: a Hand written by connect()
\* of the same Handshake object
C9_Witness ==
  \E s \in Stream :
    /\ HandshakeNonceHit(s)
    /\ conn[s].pc \in {"read", "done"}
    /\ conn[s].node = hs[s].node
    /\ hs[s].hand = conn[s].hand

\* C10: a handshake() run writes a Shake only after it has read a Hand whose
\* version is the supported one and whose nonce the registry did not hold at
\* the check; a run that failed the version test or the nonce test has
\* written nothing, the stream carries nothing from it, and no run writes
\* more than one Shake.
C10_ShakeOnlyAfterChecks ==
  \A s \in Stream :
    /\ hs[s].sent # << >> =>
         /\ hs[s].hand # None
         /\ hs[s].hand[1].version = PROTOCOL_VERSION
         /\ hs[s].checked
         /\ ~hs[s].held
    /\ (HandshakeReadHand(s) /\ (hs[s].hand[1].version # PROTOCOL_VERSION \/ hs[s].held)) =>
         /\ hs[s].sent = << >>
         /\ r2c[s] = << >>
    /\ Len(hs[s].sent) <= 1
    /\ hs[s].pc \in {"read", "write", "done"} => Len(r2c[s]) <= Len(hs[s].sent)

\* a handshake() run has written its Shake, and it is on the stream
C10_Witness ==
  \E s \in Stream :
    /\ hs[s].pc = "done"
    /\ Len(hs[s].sent) = 1
    /\ r2c[s] = hs[s].sent

\* the handshake() run on s has failed and has put nothing on the stream
HandshakeSilentFailure(s) ==
  /\ hs[s].pc = "done"
  /\ hs[s].res # None
  /\ ~hs[s].res[1].ok
  /\ hs[s].res[1].peer_info = None
  /\ hs[s].sent = << >>
  /\ r2c[s] = << >>

\* C1 as claimed: a handshake() run that read a Hand whose nonce next_nonce of
\* the same Handshake object returned at some earlier time writes no Shake
\* and does not succeed.
C1_RegisteredNeverAnswered ==
  \A s \in Stream :
    (HandshakeReadHand(s) /\ hs[s].registered) =>
      /\ hs[s].sent = << >>
      /\ r2c[s] = << >>
      /\ hs[s].pc = "done" => (hs[s].res # None /\ ~hs[s].res[1].ok)

\* C1: a handshake() run that read a Hand whose nonce next_nonce of the same
\* Handshake object returned earlier and that the registry still held when
\* the run checked it (it was not evicted in between) has failed without
\* writing a Shake.
C1_HeldNeverAnswered ==
  \A s \in Stream :
    (HandshakeReadHand(s) /\ hs[s].registered /\ hs[s].held) => HandshakeSilentFailure(s)

\* node "A" has met its own Hand while other connect() calls went on
C1_Witness ==
  \E s \in Stream :
    /\ HandshakeReadHand(s)
    /\ hs[s].registered
    /\ hs[s].held
    /\ conn[s].pc = "read"
    /\ conn[s].node = hs[s].node
    /\ hs[s].hand = conn[s].hand
    /\ Len(returned[hs[s].node]) > 1
    /\ conn[s].nonce # returned[hs[s].node][Len(returned[hs[s].node])]

\* connect() and handshake() are both running on the two ends of stream s,
\* on different nodes
E2ERunning(s) ==
  /\ conn[s].pc \in {"write", "read"}
  /\ hs[s].pc \in {"read", "write"}
  /\ conn[s].node # hs[s].node

\* both runs have returned Ok, each PeerInfo carries the other side's
\* capabilities, total_difficulty and user agent, and the versions agree
E2ESuccess(s) ==
  /\ conn[s].pc = "done" /\ conn[s].res # None /\ conn[s].res[1].ok
  /\ hs[s].pc = "done" /\ hs[s].res # None /\ hs[s].res[1].ok
  /\ conn[s].res[1].peer_info[1].capabilities = hs[s].capab
  /\ conn[s].res[1].peer_info[1].total_difficulty = hs[s].total_difficulty
  /\ conn[s].res[1].peer_info[1].user_agent = USER_AGENT
  /\ hs[s].res[1].peer_info[1].capabilities = conn[s].capab
  /\ hs[s].res[1].peer_info[1].total_difficulty = conn[s].total_difficulty
  /\ hs[s].res[1].peer_info[1].user_agent = USER_AGENT
  /\ conn[s].res[1].peer_info[1].version = hs[s].res[1].peer_info[1].version

\* C8: when connect() of one node and handshake() of another run on the two
\* ends of one stream without transport failure, then, unless the responder's
\* registry holds the initiator's nonce when it is checked, both runs
\* eventually return Ok with PeerInfos that carry the other side's
\* capabilities, total_difficulty and user agent and the same version.
C8_EndToEnd == E2ERunning(1) ~> (E2ESuccess(1) \/ HandshakeNonceHit(1))

\* both runs have succeeded with different parameters on the two sides while
\* the responder's registry held nonces of its own
C8_Witness ==
  /\ E2ESuccess(1)
  /\ conn[1].capab # hs[1].capab
  /\ nonces[hs[1].node] # << >>
  /\ ~hs[1].held

\* a result that is an error and nothing else
ErrorOnly(r) == ~r.ok /\ r.err # None /\ r.peer_info = None /\ r.proto = None

\* a result that carries a PeerInfo and a protocol handler and no error
PeerInfoAndHandler(r) == r.ok /\ r.err = None /\ r.peer_info # None /\ r.proto # None

\* C11: a connect() run that ended after the address lookup, the Hand write
\* or the Shake read failed or the Shake's version was not the supported one,
\* and a handshake() run that ended after the Hand read failed, the version
\* or the nonce test failed or the Shake write failed (the PeerInfo then being
\* already built), returned an error only; a PeerInfo and a handler are
\* returned together or not at all, only when the run has ended, and only
\* after its last step (the Shake read, the Shake write) completed.
C11_NoPeerInfoOnFailure ==
  \A s \in Stream :
    /\ (conn[s].res # None) <=> (conn[s].pc = "done")
    /\ (hs[s].res # None) <=> (hs[s].pc = "done")
    /\ Len(conn[s].res) <= 1 /\ Len(hs[s].res) <= 1
    /\ conn[s].pc = "done" =>
         /\ ErrorOnly(conn[s].res[1]) \/ PeerInfoAndHandler(conn[s].res[1])
         /\ (conn[s].peer_addr = None \/ conn[s].shake = None) => ErrorOnly(conn[s].res[1])
         /\ (conn[s].shake # None /\ conn[s].shake[1].version # PROTOCOL_VERSION) =>
              ErrorOnly(conn[s].res[1])
         /\ PeerInfoAndHandler(conn[s].res[1]) => conn[s].shake # None
    /\ hs[s].pc = "done" =>
         /\ ErrorOnly(hs[s].res[1]) \/ PeerInfoAndHandler(hs[s].res[1])
         /\ (hs[s].hand = None \/ hs[s].sent = << >>) => ErrorOnly(hs[s].res[1])
         /\ (hs[s].hand # None /\ (hs[s].hand[1].version # PROTOCOL_VERSION \/ hs[s].held)) =>
              ErrorOnly(hs[s].res[1])
         /\ PeerInfoAndHandler(hs[s].res[1]) => hs[s].sent # << >>

\* a handshake() run had built its PeerInfo when the Shake write failed, and
\* a connect() run failed on the version of the Shake
C11_Witness ==
  \E s \in Stream :
    /\ hs[s].pc = "done"
    /\ hs[s].peer_info # None
    /\ hs[s].sent = << >>
    /\ ErrorOnly(hs[s].res[1])

\* q2 is q with one value appended
Appended(q, q2) == Len(q2) = Len(q) + 1 /\ SubSeq(q2, 1, Len(q)) = q

\* q2 is q with its front evicted, q having reached the cap
Evicted(q, q2) == Len(q) >= NONCES_CAP /\ q2 = Tail(q)

\* the step is part of a next_nonce call on n: the write lock is taken or
\* given back, or the call returns
InNextNonce(n) == wlock'[n] # wlock[n] \/ returned'[n] # returned[n]

\* the connect() run on stream s has its nonce from next_nonce
NonceRegistered(s) == conn[s].pc \in {"addr", "write", "read", "done"}

\* C12: no step of a connect() run after its registration (address lookup,
\* Hand write done or failed, Shake read done, failed or rejected for its
\* version), no step of a handshake() run and no drop of a connection changes
\* the registry; the registry changes only inside next_nonce, by an append,
\* and by the eviction of the front when the cap is reached.
C12_NeverRetracted ==
  [][/\ \A s \in Stream :
          ((NonceRegistered(s) /\ conn'[s] # conn[s]) \/ hs'[s] # hs[s]) => nonces' = nonces
     /\ \A n \in Node :
          nonces'[n] # nonces[n] =>
            /\ InNextNonce(n)
            /\ \/ Appended(nonces[n], nonces'[n])
               \/ Evicted(nonces[n], nonces'[n])]_vars

\* a connect() run failed after its Hand was built, the registry has gone
\* through the cap and evicted since, and the nonce of the failed run is
\* still held
C12_Witness ==
  /\ conn[1].pc = "done"
  /\ conn[1].hand # None
  /\ ErrorOnly(conn[1].res[1])
  /\ Quiescent("A")
  /\ Len(returned["A"]) > NONCES_CAP
  /\ Len(nonces["A"]) = NONCES_CAP - 1
  /\ nonces["A"][1] # returned["A"][1]
  /\ contains(nonces["A"], conn[1].nonce)

\* the addresses a peer must not be recorded under: 127.0.0.0/8 and ::1
\* (loopback), 0.0.0.0 and :: (unspecified)
LoopbackOrUnspecified ==
  {V4(127, 0, 0, 1), V4(127, 1, 2, 3), V4(0, 0, 0, 0), V6(1), V6(0)}

\* C13: extract_ip called with an advertised address and an observed one
\* returns the observed IP with the advertised port when the advertised IP
\* is loopback or unspecified, IPv4 or IPv6, and the advertised address
\* unchanged otherwise; the port of the result is always the advertised one.
C13_ExtractIp ==
  (xip.result # None /\ xip.pa # None) =>
    LET advertised == xip.advertised[1]
        observed == xip.pa[1]
        result == xip.result[1]
    IN /\ result.port = advertised.port
       /\ advertised.ip \in LoopbackOrUnspecified => result.ip = observed.ip
       /\ advertised.ip \notin LoopbackOrUnspecified => result = advertised

\* 127.0.0.1:7000 observed from 203.0.113.5:51000 gave 203.0.113.5:7000
C13_Witness ==
  /\ xip.advertised = Some(Loopback4)
  /\ xip.pa = Some(Observed4)
  /\ xip.result = Some(SocketAddr_new(V4(203, 0, 113, 5), 7000))

\* the connect() call on stream s has ended at once because the address of
\* the peer could not be obtained
ConnectAddressFailure(s) ==
  /\ conn[s].pc = "done"
  /\ conn[s].peer_addr = None

\* C14: a connect() call that cannot obtain the address of the peer has
\* returned the Connection error, has written no Hand, and has registered no
\* nonce: the registry holds the nonces it held before the call.
C14_AddressBeforeNonce ==
  \A s \in Stream :
    ConnectAddressFailure(s) =>
      /\ conn[s].res = Some(ErrResult(ConnectionError))
      /\ conn[s].hand = None
      /\ c2r[s] = << >>
      /\ conn[s].nonce = 0
      /\ Quiescent(conn[s].node) /\ calls[conn[s].node] = 1 => nonces[conn[s].node] = << >>

\* the buffer of n is in the middle of an insertion: the nonce is appended,
\* the eviction that is due has not happened
Intermediate(n) == Len(nonces[n]) >= NONCES_CAP

\* what every thread that holds or is granted the lock of n can see
C15_NothingPartialSeen ==
  \A n \in Node :
    /\ wlock[n] # 0 => rlock[n] = {} /\ tpc[wlock[n]] = "pushed" /\ tnode[wlock[n]] = n
    /\ wlock[n] = 0 => ~Intermediate(n)
    /\ \A t \in rlock[n] : tpc[t] = "reading" /\ wlock[n] = 0 /\ ~Intermediate(n)

\* the buffer of n changes only under the write lock, and from the grant of
\* the lock to its release the call has applied the whole of next_nonce to the
\* buffer it found: the calls act one after the other in the order of their
\* returns
C15_OneCallAtATime ==
  \A n \in Node :
    /\ (wlock[n] = 0 /\ wlock'[n] = 0) => nonces'[n] = nonces[n] /\ returned'[n] = returned[n]
    /\ (wlock[n] = 0 /\ wlock'[n] # 0) =>
         /\ ~Intermediate(n)
         /\ Appended(nonces[n], nonces'[n])
         /\ returned'[n] = returned[n]
    /\ (wlock[n] # 0 /\ wlock'[n] = 0) =>
         LET found == SubSeq(nonces[n], 1, Len(nonces[n]) - 1)
             v == nonces[n][Len(nonces[n])]
         IN /\ nonces'[n] = next_nonce_buf(found, v)
            /\ returned'[n] = Append(returned[n], v)
    /\ (wlock[n] # 0 /\ wlock'[n] # 0) => wlock'[n] = wlock[n] /\ nonces'[n] = nonces[n]

\* C15: for every interleaving of next_nonce calls and membership checks, an
\* insertion is one step for everybody else: the buffer at rest is what the
\* calls give when run one after the other, and neither a membership check
\* nor another insertion is let in while a nonce is appended and the eviction
\* that is due has not been done.
C15_Atomic == []C15_NothingPartialSeen /\ [][C15_OneCallAtATime]_vars

\* a thread is between its push and the eviction that is due, another one
\* has drawn its nonce and waits for the write lock
C15_Witness ==
  /\ wlock["A"] # 0
  /\ Intermediate("A")
  /\ \E t \in Threads : tpc[t] = "drawn" /\ tnode[t] = "A"

\* the step is the read, by the handshake() run on stream s, of a Hand of an
\* unsupported version whose nonce the registry holds
ReadsUnsupportedAndHeld(s) ==
  /\ hs[s].pc = "read"
  /\ hs'[s].hand # None
  /\ hs'[s].hand[1].version # PROTOCOL_VERSION
  /\ contains(nonces[hs[s].node], hs'[s].hand[1].nonce)

\* C16: a handshake() run that reads a Hand of an unsupported version whose
\* nonce the registry holds fails at once with the version-mismatch error,
\* expected and received of one element each, not with the empty error of a
\* self-connection; it takes no lock of the registry, makes no check on it
\* and writes no Shake.
C16_VersionBeforeNonce ==
  [][\A s \in Stream :
       ReadsUnsupportedAndHeld(s) =>
         /\ hs'[s].pc = "done"
         /\ ErrorOnly(hs'[s].res[1])
         /\ LET e == hs'[s].res[1].err[1]
            IN /\ e.kind = "UnexpectedData"
               /\ e.expected = <<PROTOCOL_VERSION>>
               /\ Len(e.received) = 1
               /\ e # UnexpectedData(None, None)
         /\ ~hs'[s].checked
         /\ rlock' = rlock /\ wlock' = wlock
         /\ hs'[s].sent = << >> /\ r2c' = r2c]_vars

\* a Hand of version 2 carrying a nonce the registry holds was refused for
\* its version, without a check
C16_Witness ==
  \E s \in Stream :
    /\ hs[s].pc = "done"
    /\ hs[s].hand # None
    /\ hs[s].hand[1].version = 2
    /\ Quiescent(hs[s].node)
    /\ contains(nonces[hs[s].node], hs[s].hand[1].nonce)
    /\ ~hs[s].checked
    /\ hs[s].res = Some(ErrResult(UnexpectedData(<<1>>, <<2>>)))

\* the handshake() run on stream s read the Hand the connect() run on s wrote
ReadOwnHand(s) ==
  /\ conn[s].hand # None
  /\ hs[s].hand = conn[s].hand

\* C17: the Hand of a connect() run, from before its write begins, carries
\* the nonce the next_nonce call of that run returned, which next_nonce has
\* registered by then; a handshake() run of the same object that reads this
\* Hand finds, at its check, a nonce that next_nonce had registered already.
C17_OwnNonceRegisteredFirst ==
  \A s \in Stream :
    /\ conn[s].hand # None =>
         /\ conn[s].pc \in {"write", "read", "done"}
         /\ conn[s].hand[1].nonce = conn[s].nonce
         /\ conn[s].nonce \in Range(returned[conn[s].node])
    /\ (conn[s].hand # None /\ c2r[s] # << >>) =>
         /\ c2r[s] = <<conn[s].hand[1]>>
         /\ conn[s].pc # "write"
    /\ (ReadOwnHand(s) /\ hs[s].node = conn[s].node /\ hs[s].checked) => hs[s].registered

\* a handshake() run read the Hand of the connect() run of its own object
\* and made its check on it
C17_Witness ==
  \E s \in Stream :
    /\ ReadOwnHand(s)
    /\ hs[s].node = conn[s].node
    /\ hs[s].checked
    /\ hs[s].registered

\* the futures of stream s wait for a message to be read or written
Suspended(s) == conn[s].pc \in {"write", "read"} \/ hs[s].pc \in {"read", "write"}

\* the run on stream s holds the write lock / a read lock of registry n
HoldsWrite(s, n) == wlock[n] = Pipeline(s)
HoldsRead(s, n) == Pipeline(s) \in rlock[n]

\* no thread and no other run is inside next_nonce or the membership check
\* of registry n
NobodyInside(n) ==
  /\ \A u \in Threads : tpc[u] \in {"pushed", "reading"} => tnode[u] # n
  /\ \A s \in Stream : conn[s].pc = "pushed" => conn[s].node # n
  /\ \A s \in Stream : hs[s].pc = "checking" => hs[s].node # n

\* C18: a run holds the write lock only between the push and the return of
\* its next_nonce call and a read lock only during its membership check,
\* never while it waits for a message to be written or read, and never once
\* it has ended; so while a stream is suspended a thread that has drawn its
\* nonce is let in as soon as nobody else is inside next_nonce or the check.
C18_NoLockWhileSuspended ==
  /\ \A n \in Node, s \in Stream :
       /\ HoldsWrite(s, n) <=> (conn[s].pc = "pushed" /\ conn[s].node = n)
       /\ HoldsRead(s, n) <=> (hs[s].pc = "checking" /\ hs[s].node = n)
  /\ \A n \in Node :
       /\ wlock[n] \in Threads => tpc[wlock[n]] = "pushed"
       /\ \A h \in rlock[n] \cap Threads : tpc[h] = "reading"
  /\ \A s \in Stream, t \in Threads :
       (Suspended(s) /\ tpc[t] = "drawn" /\ NobodyInside(tnode[t])) =>
         ENABLED (\E v \in RngValues(tnode[t]) : NextNoncePush(t, v))

\* a handshake() run has made its check and waits for its Shake to be
\* written while a thread is inside next_nonce on the same registry
C18_Witness ==
  /\ hs[1].pc = "write"
  /\ hs[1].checked
  /\ wlock[hs[1].node] \in Threads

\* C19: the PeerInfo of every connect() and of every handshake() that
\* succeeded has the supported protocol version in its version field, the
\* version connect() puts in its Hand and handshake() in its Shake.
C19_PeerInfoVersion ==
  \A s \in Stream :
    /\ conn[s].hand # None => conn[s].hand[1].version = PROTOCOL_VERSION
    /\ hs[s].shake # None => hs[s].shake[1].version = PROTOCOL_VERSION
    /\ (conn[s].res # None /\ conn[s].res[1].peer_info # None) =>
         conn[s].res[1].peer_info[1].version = PROTOCOL_VERSION
    /\ hs[s].peer_info # None => hs[s].peer_info[1].version = PROTOCOL_VERSION
    /\ (hs[s].res # None /\ hs[s].res[1].peer_info # None) =>
         hs[s].res[1].peer_info[1].version = PROTOCOL_VERSION

\* a connect() run has read a Shake of a remote peer and returned a PeerInfo
C19_Witness ==
  /\ conn[1].res # None /\ conn[1].res[1].ok
  /\ conn[1].shake # None /\ conn[1].shake[1].user_agent = "other"
  /\ conn[1].res[1].peer_info[1].version = PROTOCOL_VERSION

\* the handshake() run on stream s read a Hand that passes both tests, on a
\* stream whose conn.peer_addr() is Err
AcceptedUnobserved(s) ==
  /\ hs[s].hand # None
  /\ hs[s].hand[1].version = PROTOCOL_VERSION
  /\ hs[s].checked /\ ~hs[s].held
  /\ hs[s].pc \notin {"addr"}
  /\ hs[s].pa = None

\* C20: when the observed address of the peer cannot be obtained, the
\* handshake() run goes on with the advertised address as it is, loopback or
\* unspecified included: it builds its PeerInfo with it, writes its Shake and,
\* the Shake written, returns that PeerInfo.
C20_UnobservedKeepsAdvertised ==
  \A s \in Stream :
    AcceptedUnobserved(s) =>
      /\ hs[s].pc \in {"write", "done"}
      /\ hs[s].peer_info # None
      /\ hs[s].peer_info[1].addr = hs[s].hand[1].sender_addr
      /\ hs[s].pc = "done" =>
           \/ /\ hs[s].sent = <<hs[s].shake[1]>>
              /\ hs[s].res = Some(OkResult(hs[s].peer_info[1]))
           \/ /\ hs[s].sent = << >>
              /\ hs[s].res = Some(ErrResult(ConnectionError))

\* a Hand advertising 127.0.0.1:7000 was accepted on a stream without an
\* observed address: the Shake is written and the PeerInfo returned has
\* 127.0.0.1:7000
C20_Witness ==
  \E s \in Stream :
    /\ AcceptedUnobserved(s)
    /\ hs[s].hand[1].sender_addr = Loopback4
    /\ hs[s].sent # << >>
    /\ hs[s].res # None /\ hs[s].res[1].ok
    /\ hs[s].res[1].peer_info[1].addr = Loopback4

====
